---- MODULE Spec2Model ----
(***************************************************************************)
(* A model of EchoSoul's memory subsystem (src/memory_engine.py):          *)
(* MemoryEngine.store_memory, retrieve_memories, get_timeline and          *)
(* get_vault_memories over the plain partition (one .json file per id),    *)
(* the vault partition (one .enc blob per id) and the vector index.        *)
(*                                                                         *)
(* store_memory is modelled statement by statement, so that a reader or a  *)
(* crash can fall between opening a file and writing it, and between the   *)
(* record write and the index insertion.  The three reads are atomic and   *)
(* leave their result in `out`.                                            *)
(***************************************************************************)
EXTENDS Integers, Sequences, FiniteSets, TLC

(***************************************************************************)
(* Bounds of the model.                                                    *)
(***************************************************************************)
\* store_memory calls per behaviour (uuid4 hands out ids 1..MaxMem)
MaxMem == 2
\* datetime.now() ranges over the instants 0..MaxTick
MaxTick == 2

Ids == 1..MaxMem
\* user ids and values of settings.ENCRYPTION_KEY: strings, as sequences of
\* characters
Users == {<<"A">>, <<"B">>}
Secrets == {<<"k", "1">>, <<"k", "2">>}

\* a key that a dict does not hold; None for an optional argument
Absent == "<absent>"
None == "<none>"

\* The memory dicts the callers pass (src/ai_brain.py:248, src/app.py:802):
\* a type, a content and an emotion, no title.
Inputs ==
  { [type |-> "conversation", content |-> "c1", emotion |-> "joy"],
    [type |-> "journal",      content |-> "c2", emotion |-> "sadness"] }

Contents == {i.content : i \in Inputs}
Types == {"conversation", "journal"}

(***************************************************************************)
(* Results of calls: a returned value or a raised exception.               *)
(***************************************************************************)
Ok(v) == [kind |-> "ok", val |-> v]
Raise(e) == [kind |-> "raise", val |-> e]

(***************************************************************************)
(* Time.  A datetime is <<second, microsecond>>; isoformat() drops the     *)
(* fraction when the microsecond field is 0, so the stored string is       *)
(* <<second>> or <<second, microsecond>> (fixed-width fields, compared as  *)
(* numbers; the "." that separates them is implied by the position).       *)
(***************************************************************************)
\* The instant n of the model's clock: two instants to the second, so
\* that the microsecond field is 0 at every other instant.
DatetimeAt(n) == <<n \div 2, n % 2>>

Datetimes == {DatetimeAt(n) : n \in 0..MaxTick}

DtLess(a, b) == a[1] < b[1] \/ (a[1] = b[1] /\ a[2] < b[2])

DtLeq(a, b) == a = b \/ DtLess(a, b)

isoformat(dt) == IF dt[2] = 0 THEN <<dt[1]>> ELSE <<dt[1], dt[2]>>

fromisoformat(s) == IF Len(s) = 1 THEN <<s[1], 0>> ELSE <<s[1], s[2]>>

\* Python's < on str: the first differing character decides, and a proper
\* prefix is smaller.
RECURSIVE StrLess(_, _)
StrLess(a, b) ==
  IF b = <<>> THEN FALSE
  ELSE IF a = <<>> THEN TRUE
  ELSE IF Head(a) # Head(b) THEN Head(a) < Head(b)
  ELSE StrLess(Tail(a), Tail(b))

(***************************************************************************)
(* json.dumps / json.loads and a file that was opened for writing but      *)
(* whose content was not (completely) written.                             *)
(***************************************************************************)
NoFile == [kind |-> "absent"]
Truncated == [kind |-> "truncated"]

json_dumps(m) == [kind |-> "json", val |-> m]

json_loads(d) == IF d.kind = "json" THEN Ok(d.val) ELSE Raise("JSONDecodeError")

\* dict.get(key, default) for the "type" key
GetType(m, default) == IF m.type = Absent THEN default ELSE m.type

(***************************************************************************)
(* The vault cipher.                                                       *)
(***************************************************************************)
\* Mutant: the key material leaves the user id out.
KeyMaterialWithoutUser(u, s) == <<":">> \o s

\* f"{self.user_id}:{settings.ENCRYPTION_KEY}"
KeyMaterial(u, s) == u \o <<":">> \o s

\* hashlib.sha256(m).digest(): 32 bytes, one-way and collision free
Sha256DigestLen == 32

sha256_digest(m) == [bytes |-> <<"sha256", m>>, len |-> Sha256DigestLen]

\* MemoryEngine._generate_encryption_key: the first 32 bytes of the digest,
\* that is the raw digest itself.
_generate_encryption_key(u, s) == sha256_digest(KeyMaterial(u, s))

\* The Fernet object holding a key.
CipherOf(key) == [key |-> key.bytes]

\* Fernet(key), line 35.  The constructor takes the url-safe base64 text
\* of a 32-byte key: it base64-decodes its argument and raises ValueError
\* ("Fernet key must be 32 url-safe base64-encoded bytes") unless 32 bytes
\* come out.  Base64 turns 4 characters into 3 bytes, so an argument of n
\* bytes decodes to at most (n * 3) \div 4 bytes.
FernetKeyBytes == 32

Fernet(key) ==
  IF (key.len * 3) \div 4 < FernetKeyBytes
  THEN Raise("ValueError")
  ELSE Ok(CipherOf(key))

\* Fernet.encrypt: the token authenticates the data under the key.
encrypt(cipher, data) == [kind |-> "token", key |-> cipher.key, data |-> data]

\* Fernet.decrypt: InvalidToken unless the blob is a token made with this key.
decrypt(cipher, blob) ==
  IF blob.kind = "token" /\ blob.key = cipher.key
  THEN Ok(blob.data)
  ELSE Raise("InvalidToken")

VARIABLES
  user_id,      \* self.user_id
  secret,       \* settings.ENCRYPTION_KEY
  use_pinecone, \* self.use_pinecone
  encryption,   \* self.encryption
  memFiles,     \* MEMORIES_DIR/user_id: id -> content of <id>.json
  vaultFiles,   \* VAULT_DIR/user_id:    id -> content of <id>.enc
  index,        \* the vector index of the user: a set of entries
  now,          \* the last value datetime.now() returned
  nextId,       \* the next uuid4
  call,         \* the store_memory call in flight
  hist,         \* id -> what became of the store_memory call that made it
  out           \* the last read operation, its arguments and its result

VARIABLES
  personality_file,     \* USERS_DIR/user_id/personality.json
  personality,          \* EchoSoulAI.personality, the profile loaded at construction
  conversation_history, \* EchoSoulAI.conversation_history
  turn,                 \* the generate_response call in flight
  callers               \* the update_personality_trait calls in flight

brainVars == <<personality_file, personality, conversation_history, turn, callers>>

\* the threads that may call update_personality_trait, and their rest
Callers == {"t1", "t2"}
Resting == [c \in Callers |-> [pc |-> "idle"]]

vars == <<user_id, secret, use_pinecone, encryption, memFiles,
          vaultFiles, index, now, nextId, call, hist, out, brainVars>>

Idle == [pc |-> "idle"]
NoOut == [op |-> "none"]
NoCall == [status |-> "none"]

\* An engine at work: self.encryption holds the key derived for its user.
\* (The constructor call that is to build it is the action MemoryEngineInit.)
EngineAtWork ==
  /\ user_id = <<"A">>
  /\ secret = <<"k", "1">>
  /\ use_pinecone \in BOOLEAN
  /\ encryption = CipherOf(_generate_encryption_key(user_id, secret))
  /\ memFiles = [i \in Ids |-> NoFile]
  /\ vaultFiles = [i \in Ids |-> NoFile]
  /\ index = {}
  /\ now = <<0, 0>>
  /\ nextId = 1
  /\ call = Idle
  /\ hist = [i \in Ids |-> NoCall]
  /\ out = NoOut

\* The engine alone: no profile written yet, no EchoSoulAI built.
Init ==
  /\ EngineAtWork
  /\ personality_file = NoFile
  /\ personality = NoFile
  /\ conversation_history = <<>>
  /\ turn = Idle
  /\ callers = Resting

engineVars == <<user_id, secret, use_pinecone, encryption>>


(***************************************************************************)
(* The embedding provider.  A text is the sequence of its words; a vector  *)
(* is a point on a line and the cosine score a negated distance, so that   *)
(* equal vectors score highest and different texts can tie.                *)
(***************************************************************************)
WordVec(w) ==
  CASE w = "c1" -> 0
    [] w = "c2" -> 4
    [] w = "joy" -> 1
    [] w = "sadness" -> -1
    [] OTHER -> 0

RECURSIVE encode(_)
encode(text) == IF text = <<>> THEN 0 ELSE WordVec(Head(text)) + encode(Tail(text))

\* MemoryEngine._get_embedding.  providerOk: the provider of the configured
\* mode answers.  Without a Google key an exception of self.encoder leaves
\* the function; with one, the fallback after a failed API call is
\* self.encoder, which __init__ did not set: an exception either way.
_get_embedding(text, providerOk) ==
  IF providerOk THEN Ok(encode(text)) ELSE Raise("EmbeddingError")

Score(q, v) == IF q < v THEN q - v ELSE v - q

(***************************************************************************)
(* store_memory, statement by statement.                                   *)
(***************************************************************************)
\* lines 102-105 and 109 / 118: the dict as it is written
StampedMemory(m, is_vault, t) ==
  [id |-> nextId, timestamp |-> isoformat(t), user_id |-> user_id,
   type |-> m.type, content |-> m.content, emotion |-> m.emotion,
   encrypted |-> is_vault]

\* line 124: f"{title} {content} {emotion}", the title defaulting to ""
MemoryText(memory) == <<"", memory.content, memory.emotion>>

\* lines 128-135
Metadata(memory) ==
  [type |-> GetType(memory, "conversation"), emotion |-> memory.emotion,
   timestamp |-> memory.timestamp, is_vault |-> FALSE,
   user_id |-> user_id, id |-> memory.id]

\* lines 137-150: the vector, and with ChromaDB the document
IndexEntry(memory, embedding) ==
  [id |-> memory.id, embedding |-> embedding, metadata |-> Metadata(memory),
   document |-> IF use_pinecone THEN NoFile ELSE json_dumps(memory)]

\* Mutant: the index insertion comes first, before the record is written.
StoreBeginIndexFirst(m, is_vault, t) ==
  /\ call.pc = "idle"
  /\ nextId <= MaxMem
  /\ DtLeq(now, t)
  /\ LET memory == StampedMemory(m, is_vault, t) IN
       /\ call' = [pc |-> "opened", memory |-> memory, is_vault |-> is_vault]
       /\ hist' = [hist EXCEPT ![nextId] =
                     [status |-> "running", memory |-> memory, is_vault |-> is_vault]]
       /\ IF is_vault
          THEN /\ vaultFiles' = [vaultFiles EXCEPT ![nextId] = Truncated]
               /\ UNCHANGED <<memFiles, index>>
          ELSE /\ memFiles' = [memFiles EXCEPT ![nextId] = Truncated]
               /\ index' = index \cup {IndexEntry(memory, encode(MemoryText(memory)))}
               /\ UNCHANGED vaultFiles
  /\ now' = t
  /\ nextId' = nextId + 1
  /\ out' = NoOut
  /\ UNCHANGED <<engineVars, brainVars>>

\* lines 100-114 / 100-120, up to and including open(): the file exists
\* and is empty.
StoreBegin(m, is_vault, t) ==
  /\ call.pc = "idle"
  /\ nextId <= MaxMem
  /\ DtLeq(now, t)
  /\ LET memory == StampedMemory(m, is_vault, t) IN
       /\ call' = [pc |-> "opened", memory |-> memory, is_vault |-> is_vault]
       /\ hist' = [hist EXCEPT ![nextId] =
                     [status |-> "running", memory |-> memory, is_vault |-> is_vault]]
       /\ IF is_vault
          THEN /\ vaultFiles' = [vaultFiles EXCEPT ![nextId] = Truncated]
               /\ UNCHANGED memFiles
          ELSE /\ memFiles' = [memFiles EXCEPT ![nextId] = Truncated]
               /\ UNCHANGED vaultFiles
  /\ now' = t
  /\ nextId' = nextId + 1
  /\ out' = NoOut
  /\ UNCHANGED <<engineVars, index,
                 brainVars>>

\* Mutant: a vault memory is also written, in the clear, to the plain
\* partition.
StoreWriteVaultInPlain ==
  /\ call.pc = "opened"
  /\ LET memory == call.memory IN
       IF call.is_vault
       THEN /\ vaultFiles' = [vaultFiles EXCEPT
                 ![memory.id] = encrypt(encryption, json_dumps(memory))]
            /\ memFiles' = [memFiles EXCEPT ![memory.id] = json_dumps(memory)]
            /\ call' = Idle
            /\ hist' = [hist EXCEPT ![memory.id].status = "returned"]
       ELSE /\ memFiles' = [memFiles EXCEPT ![memory.id] = json_dumps(memory)]
            /\ call' = [call EXCEPT !.pc = "written"]
            /\ UNCHANGED <<vaultFiles, hist>>
  /\ out' = NoOut
  /\ UNCHANGED <<engineVars, index, now, nextId,
                 brainVars>>

\* line 115 and the return of line 152 / line 121
StoreWrite ==
  /\ call.pc = "opened"
  /\ LET memory == call.memory IN
       IF call.is_vault
       THEN /\ vaultFiles' = [vaultFiles EXCEPT
                 ![memory.id] = encrypt(encryption, json_dumps(memory))]
            /\ call' = Idle
            /\ hist' = [hist EXCEPT ![memory.id].status = "returned"]
            /\ UNCHANGED memFiles
       ELSE /\ memFiles' = [memFiles EXCEPT ![memory.id] = json_dumps(memory)]
            /\ call' = [call EXCEPT !.pc = "written"]
            /\ UNCHANGED <<vaultFiles, hist>>
  /\ out' = NoOut
  /\ UNCHANGED <<engineVars, index, now, nextId,
                 brainVars>>

\* Mutant: store_memory returns without the index insertion.
StoreIndexSkipped(providerOk) ==
  /\ call.pc = "written"
  /\ LET embedding == _get_embedding(MemoryText(call.memory), providerOk) IN
       IF embedding.kind = "raise"
       THEN hist' = [hist EXCEPT ![call.memory.id].status = "raised"]
       ELSE hist' = [hist EXCEPT ![call.memory.id].status = "returned"]
  /\ call' = Idle
  /\ out' = NoOut
  /\ UNCHANGED <<engineVars, memFiles, vaultFiles, index, now, nextId,
                 brainVars>>

\* lines 124-152: the embedding, whose exception leaves store_memory, then
\* upsert / add and the return
StoreIndex(providerOk) ==
  /\ call.pc = "written"
  /\ LET embedding == _get_embedding(MemoryText(call.memory), providerOk) IN
       IF embedding.kind = "raise"
       THEN /\ hist' = [hist EXCEPT ![call.memory.id].status = "raised"]
            /\ UNCHANGED index
       ELSE /\ index' = index \cup {IndexEntry(call.memory, embedding.val)}
            /\ hist' = [hist EXCEPT ![call.memory.id].status = "returned"]
  /\ call' = Idle
  /\ out' = NoOut
  /\ UNCHANGED <<engineVars, memFiles, vaultFiles, now, nextId,
                 brainVars>>

\* The process dies inside store_memory; files and index stay as they are.
Crash ==
  /\ call.pc # "idle"
  /\ call' = Idle
  /\ hist' = [hist EXCEPT ![call.memory.id].status = "crashed"]
  /\ out' = NoOut
  /\ UNCHANGED <<engineVars, memFiles, vaultFiles, index, now, nextId,
                 brainVars>>


(***************************************************************************)
(* The reads.  os.listdir and the vector database return their entries in  *)
(* an order the code does not control: each read takes that order as an    *)
(* input.                                                                  *)
(***************************************************************************)
Perms(S) ==
  {f \in [1..Cardinality(S) -> S] : \A i, j \in DOMAIN f : f[i] = f[j] => i = j}

Prefix(seq, n) == IF Len(seq) <= n THEN seq ELSE SubSeq(seq, 1, n)

\* list.sort(key=lambda x: x["timestamp"]): a stable sort on the strings
RECURSIVE InsertByTimestamp(_, _)
InsertByTimestamp(sorted, m) ==
  IF sorted = <<>> THEN <<m>>
  ELSE IF StrLess(m.timestamp, Head(sorted).timestamp)
       THEN <<m>> \o sorted
       ELSE <<Head(sorted)>> \o InsertByTimestamp(Tail(sorted), m)

RECURSIVE SortByTimestamp(_)
SortByTimestamp(seq) ==
  IF seq = <<>> THEN <<>>
  ELSE InsertByTimestamp(SortByTimestamp(Prefix(seq, Len(seq) - 1)), seq[Len(seq)])

\* Mutant: the start bound is exclusive.
RECURSIVE TimelineScanExclusiveStart(_, _, _, _)
TimelineScanExclusiveStart(listing, start_date, end_date, memories) ==
  IF listing = <<>> THEN Ok(memories)
  ELSE LET loaded == json_loads(memFiles[Head(listing)]) IN
    IF loaded.kind = "raise" THEN loaded
    ELSE LET memory == loaded.val
             mem_date == fromisoformat(memory.timestamp)
             skip == \/ start_date # <<>> /\ DtLeq(mem_date, fromisoformat(start_date))
                     \/ end_date # <<>> /\ DtLess(fromisoformat(end_date), mem_date)
         IN TimelineScanExclusiveStart(Tail(listing), start_date, end_date,
                         IF skip THEN memories ELSE Append(memories, memory))

\* get_timeline, lines 214-230: the loop over the listed files.  start and
\* end are isoformat strings, "" (or None) when not given.
RECURSIVE TimelineScan(_, _, _, _)
TimelineScan(listing, start_date, end_date, memories) ==
  IF listing = <<>> THEN Ok(memories)
  ELSE LET loaded == json_loads(memFiles[Head(listing)]) IN
    IF loaded.kind = "raise" THEN loaded
    ELSE LET memory == loaded.val
             mem_date == fromisoformat(memory.timestamp)
             skip == \/ start_date # <<>> /\ DtLess(mem_date, fromisoformat(start_date))
                     \/ end_date # <<>> /\ DtLess(fromisoformat(end_date), mem_date)
         IN TimelineScan(Tail(listing), start_date, end_date,
                         IF skip THEN memories ELSE Append(memories, memory))

\* MemoryEngine.get_timeline
get_timeline(listing, start_date, end_date) ==
  LET scanned == TimelineScan(listing, start_date, end_date, <<>>) IN
    IF scanned.kind = "raise" THEN scanned ELSE Ok(SortByTimestamp(scanned.val))

\* The database's answer to a query: the entries passing the filter, best
\* score first, at most top_k of them; equal scores in the order the
\* database happens to hold them.
EntryOf(id) == CHOOSE e \in index : e.id = id

Passes(e, memory_type) ==
  /\ e.metadata.is_vault = FALSE
  /\ use_pinecone => e.metadata.user_id = user_id
  /\ memory_type # None => e.metadata.type = memory_type

RECURSIVE InsertByScore(_, _, _)
InsertByScore(ranked, e, q) ==
  IF ranked = <<>> THEN <<e>>
  ELSE IF Score(q, e.embedding) > Score(q, Head(ranked).embedding)
       THEN <<e>> \o ranked
       ELSE <<Head(ranked)>> \o InsertByScore(Tail(ranked), e, q)

RECURSIVE Rank(_, _, _)
Rank(held, memory_type, q) ==
  IF held = <<>> THEN <<>>
  ELSE LET e == EntryOf(held[Len(held)])
           rest == Rank(Prefix(held, Len(held) - 1), memory_type, q)
       IN IF Passes(e, memory_type) THEN InsertByScore(rest, e, q) ELSE rest

VectorQuery(held, q, top_k, memory_type) == Prefix(Rank(held, memory_type, q), top_k)

\* retrieve_memories, lines 177-186 (Pinecone): the record is loaded from
\* the plain partition when its file exists
RECURSIVE LoadMatches(_, _, _)
LoadMatches(matches, q, memories) ==
  IF matches = <<>> THEN Ok(memories)
  ELSE LET match == Head(matches)
           file == memFiles[match.id]
       IN IF file.kind = "absent"
          THEN LoadMatches(Tail(matches), q, memories)
          ELSE LET loaded == json_loads(file) IN
            IF loaded.kind = "raise" THEN loaded
            ELSE LoadMatches(Tail(matches), q,
                   Append(memories, [memory |-> loaded.val,
                                     similarity |-> Score(q, match.embedding)]))

\* retrieve_memories, lines 199-203 (ChromaDB): the record is the stored
\* document; the metadata has no "distance", so similarity is 0
RECURSIVE ParseDocuments(_, _)
ParseDocuments(matches, memories) ==
  IF matches = <<>> THEN Ok(memories)
  ELSE LET loaded == json_loads(Head(matches).document) IN
    IF loaded.kind = "raise" THEN loaded
    ELSE ParseDocuments(Tail(matches),
           Append(memories, [memory |-> loaded.val, similarity |-> 0]))

\* MemoryEngine.retrieve_memories
retrieve_memories(held, query, n_results, memory_type, providerOk) ==
  LET query_embedding == _get_embedding(<<query>>, providerOk) IN
    IF query_embedding.kind = "raise" THEN query_embedding
    ELSE LET matches == VectorQuery(held, query_embedding.val, n_results, memory_type) IN
      IF use_pinecone
      THEN LoadMatches(matches, query_embedding.val, <<>>)
      ELSE ParseDocuments(matches, <<>>)

\* Mutant: the listing stops at the first blob that does not decrypt or
\* parse.
RECURSIVE VaultScanStopsAtBadBlob(_, _, _)
VaultScanStopsAtBadBlob(cipher, listing, vault_memories) ==
  IF listing = <<>> THEN vault_memories
  ELSE LET decrypted_data == decrypt(cipher, vaultFiles[Head(listing)])
           loaded == IF decrypted_data.kind = "raise" THEN decrypted_data
                     ELSE json_loads(decrypted_data.val)
       IN IF loaded.kind = "raise" THEN vault_memories
          ELSE VaultScanStopsAtBadBlob(cipher, Tail(listing),
                                       Append(vault_memories, loaded.val))

\* get_vault_memories, lines 258-268: a blob that does not decrypt or
\* parse is skipped
RECURSIVE VaultScan(_, _, _)
VaultScan(cipher, listing, vault_memories) ==
  IF listing = <<>> THEN vault_memories
  ELSE LET decrypted_data == decrypt(cipher, vaultFiles[Head(listing)])
           loaded == IF decrypted_data.kind = "raise" THEN decrypted_data
                     ELSE json_loads(decrypted_data.val)
       IN VaultScan(cipher, Tail(listing),
                    IF loaded.kind = "raise" THEN vault_memories
                    ELSE Append(vault_memories, loaded.val))

\* MemoryEngine.get_vault_memories
get_vault_memories(cipher, listing) == Ok(VaultScan(cipher, listing, <<>>))

PlainIds == {i \in Ids : memFiles[i].kind # "absent"}
VaultIds == {i \in Ids : vaultFiles[i].kind # "absent"}
IndexIds == {e.id : e \in index}

\* The arguments the reads are called with.
DateArgs == {<<>>, isoformat(DatetimeAt(1)), isoformat(DatetimeAt(2))}
TypeArgs == {None} \cup Types
KArgs == {1, MaxMem}

\* A read starts from the state the last write left (a second read in a
\* row reaches no state the first did not).
GetTimeline(start_date, end_date) ==
  /\ out = NoOut
  /\ out' \in {[op |-> "get_timeline", start_date |-> start_date,
                end_date |-> end_date,
                result |-> get_timeline(listing, start_date, end_date)] :
               listing \in Perms(PlainIds)}
  /\ UNCHANGED <<engineVars, memFiles, vaultFiles, index, now, nextId, call, hist,
                 brainVars>>

RetrieveMemories(query, n_results, memory_type, providerOk) ==
  /\ out = NoOut
  /\ out' \in {[op |-> "retrieve_memories", query |-> query,
                n_results |-> n_results, memory_type |-> memory_type,
                result |-> retrieve_memories(held, query, n_results,
                                             memory_type, providerOk)] :
               held \in Perms(IndexIds)}
  /\ UNCHANGED <<engineVars, memFiles, vaultFiles, index, now, nextId, call, hist,
                 brainVars>>

GetVaultMemories ==
  /\ out = NoOut
  /\ out' \in {[op |-> "get_vault_memories",
                result |-> get_vault_memories(encryption, listing)] :
               listing \in Perms(VaultIds)}
  /\ UNCHANGED <<engineVars, memFiles, vaultFiles, index, now, nextId, call, hist,
                 brainVars>>

\* MemoryEngine.__init__, line 35, of a further instance for user u while
\* settings.ENCRYPTION_KEY is s: the instance replaces the engine when its
\* construction succeeds.
MemoryEngineInit(u, s) ==
  /\ out = NoOut
  /\ LET built == Fernet(_generate_encryption_key(u, s)) IN
       /\ out' = [op |-> "__init__", user_id |-> u, secret |-> s, result |-> built]
       /\ IF built.kind = "ok"
          THEN /\ user_id' = u
               /\ secret' = s
               /\ encryption' = built.val
          ELSE UNCHANGED <<user_id, secret, encryption>>
  /\ UNCHANGED <<use_pinecone, memFiles, vaultFiles, index, now, nextId, call, hist,
                 brainVars>>

Next ==
  \/ \E m \in Inputs, is_vault \in BOOLEAN, t \in Datetimes : StoreBegin(m, is_vault, t)
  \/ StoreWrite
  \/ \E providerOk \in BOOLEAN : StoreIndex(providerOk)
  \/ Crash
  \/ \E start_date \in DateArgs, end_date \in DateArgs : GetTimeline(start_date, end_date)
  \/ \E query \in Contents, n_results \in KArgs, memory_type \in TypeArgs,
        providerOk \in BOOLEAN :
       RetrieveMemories(query, n_results, memory_type, providerOk)
  \/ GetVaultMemories
  \/ \E u \in Users, s \in Secrets : MemoryEngineInit(u, s)

Spec == Init /\ [][Next]_vars


(***************************************************************************)
(* What the properties below speak about.                                  *)
(***************************************************************************)
Range(seq) == {seq[i] : i \in DOMAIN seq}

\* the store_memory calls that returned an id, by partition
ReturnedVault == {i \in Ids : hist[i].status = "returned" /\ hist[i].is_vault}
ReturnedPlain == {i \in Ids : hist[i].status = "returned" /\ ~hist[i].is_vault}

TimelineReturned == out.op = "get_timeline" /\ out.result.kind = "ok"
RetrieveReturned == out.op = "retrieve_memories" /\ out.result.kind = "ok"
VaultListReturned == out.op = "get_vault_memories" /\ out.result.kind = "ok"

\* the records a returned retrieve_memories holds
Retrieved == {r.memory : r \in Range(out.result.val)}

(***************************************************************************)
(* C1.  A memory stored with is_vault = True is never among the records    *)
(* get_timeline returns, never among the records retrieve_memories         *)
(* returns, whatever the query (its own content included), and it is among *)
(* the records get_vault_memories returns.                                 *)
(***************************************************************************)
C1_VaultOnlyInVaultListing ==
  \A i \in ReturnedVault :
    /\ TimelineReturned =>
         \A m \in Range(out.result.val) : m.id # i /\ m # hist[i].memory
    /\ RetrieveReturned =>
         \A m \in Retrieved : m.id # i /\ m # hist[i].memory
    /\ out.op = "get_vault_memories" =>
         /\ out.result.kind = "ok"
         /\ hist[i].memory \in Range(out.result.val)

\* a vault memory is stored, and a search for its very content returned
\* records
C1_Witness ==
  \E i \in ReturnedVault :
    /\ RetrieveReturned
    /\ out.query = hist[i].memory.content
    /\ out.result.val # <<>>

(***************************************************************************)
(* C2.  Once store_memory has returned for a non-vault memory m, every     *)
(* retrieve_memories that returns, asked with m's content and with         *)
(* n_results at least the number of stored plain memories (no type filter, *)
(* or m's own type), has m among its results: m is searchable from the     *)
(* return of its store on, in every later state.                           *)
(***************************************************************************)
C2_StoredPlainIsSearchable ==
  \A i \in ReturnedPlain :
    ( /\ RetrieveReturned
      /\ out.query = hist[i].memory.content
      /\ out.n_results >= Cardinality(PlainIds)
      /\ out.memory_type \in {None, GetType(hist[i].memory, "conversation")} )
    => hist[i].memory \in Retrieved

\* two plain memories are stored and a search with the content of one, wide
\* enough for both, returned it
C2_Witness ==
  /\ Cardinality(ReturnedPlain) = 2
  /\ RetrieveReturned
  /\ out.n_results >= Cardinality(PlainIds)
  /\ \E i \in ReturnedPlain :
       /\ out.query = hist[i].memory.content
       /\ hist[i].memory \in Retrieved

(***************************************************************************)
(* C3.  The record file is written before the index insertion: in every    *)
(* state, also after a crash inside store_memory, every index entry has a  *)
(* completely written plain record with its id.  A plain record without    *)
(* an index entry is not returned by retrieve_memories, is returned by     *)
(* get_timeline like any other, and makes no read fail: retrieve_memories  *)
(* fails only when the query cannot be embedded, get_vault_memories never, *)
(* and get_timeline does not fail while every plain file is completely     *)
(* written.                                                                *)
(***************************************************************************)
Unindexed == {i \in PlainIds : memFiles[i].kind = "json" /\ i \notin IndexIds}

C3_RecordBeforeIndex ==
  /\ \A e \in index :
       /\ memFiles[e.id].kind = "json"
       /\ memFiles[e.id].val.id = e.id
       /\ e.metadata.timestamp = memFiles[e.id].val.timestamp
  /\ Cardinality(IndexIds) = Cardinality(index)
  /\ RetrieveReturned => \A m \in Retrieved : m.id \notin Unindexed
  /\ out.op = "retrieve_memories" /\ out.result.kind = "raise"
       => out.result.val = "EmbeddingError"
  /\ out.op = "get_vault_memories" => out.result.kind = "ok"
  /\ out.op = "get_timeline" /\ (\A i \in PlainIds : memFiles[i].kind = "json")
       => out.result.kind = "ok"
  /\ TimelineReturned /\ out.start_date = <<>> /\ out.end_date = <<>>
       => \A i \in Unindexed : memFiles[i].val \in Range(out.result.val)

\* store_memory died after the record write and before the index
\* insertion, and a later search that returned records left the record out
C3_Witness ==
  \E i \in Unindexed :
    /\ hist[i].status = "crashed"
    /\ RetrieveReturned
    /\ out.memory_type = None
    /\ out.n_results >= Cardinality(PlainIds)
    /\ out.result.val # <<>>


(***************************************************************************)
(* C4.  When the embedding cannot be computed during the store of a        *)
(* non-vault memory, store_memory raises and the memory is not stored: no  *)
(* record of it is among the records get_timeline or retrieve_memories     *)
(* return afterwards.                                                      *)
(***************************************************************************)
EmbeddingFailed == {i \in Ids : hist[i].status = "raised"}

C4_FailedStoreLeavesNoRecord ==
  \A i \in EmbeddingFailed :
    /\ TimelineReturned => \A m \in Range(out.result.val) : m.id # i
    /\ RetrieveReturned => \A m \in Retrieved : m.id # i

(***************************************************************************)
(* C5.  A vault memory stored by one instance is returned, with the same   *)
(* content, by get_vault_memories of every instance constructed later for  *)
(* the same user_id under the same secret: the construction derives the    *)
(* same key, and decrypting what was encrypted gives the plaintext back.   *)
(***************************************************************************)
C5_LaterInstanceListsVault ==
  \A i \in ReturnedVault :
    ( /\ out.op = "__init__"
      /\ out.user_id = hist[i].memory.user_id
      /\ out.secret = secret )
    => /\ out.result.kind = "ok"
       /\ decrypt(out.result.val, encrypt(out.result.val, json_dumps(hist[i].memory)))
            = Ok(json_dumps(hist[i].memory))
       /\ \A listing \in Perms(VaultIds) :
            hist[i].memory \in Range(get_vault_memories(out.result.val, listing).val)

(***************************************************************************)
(* C6.  A vault blob written under the key of this user and secret does    *)
(* not decrypt under the key derived for another user_id or another        *)
(* secret: decrypt raises, and get_vault_memories run with such a key      *)
(* over this user's vault returns no memory.                               *)
(***************************************************************************)
C6_OtherKeyReadsNothing ==
  \A u \in Users, s \in Secrets :
    <<u, s>> # <<user_id, secret>> =>
      LET other == CipherOf(_generate_encryption_key(u, s)) IN
        /\ \A i \in VaultIds : decrypt(other, vaultFiles[i]) = Raise("InvalidToken")
        /\ \A listing \in Perms(VaultIds) :
             get_vault_memories(other, listing) = Ok(<<>>)

\* a vault memory is stored and the user's own listing returned it
C6_Witness ==
  /\ ReturnedVault # {}
  /\ VaultListReturned
  /\ \E i \in ReturnedVault : hist[i].memory \in Range(out.result.val)
  /\ \A i \in VaultIds : vaultFiles[i].kind = "token"

(***************************************************************************)
(* C7.  get_vault_memories never fails because of a bad record: a blob     *)
(* that cannot be decrypted or parsed is skipped, and exactly the vault    *)
(* memories whose store returned are listed, each once.                    *)
(***************************************************************************)
C7_VaultListingSkipsBadBlobs ==
  out.op = "get_vault_memories" =>
    /\ out.result.kind = "ok"
    /\ Range(out.result.val) = {hist[i].memory : i \in ReturnedVault}
    /\ Len(out.result.val) = Cardinality(ReturnedVault)

\* the vault holds a blob that was never written out beside a good one, and
\* the listing returned the good one
C7_Witness ==
  /\ VaultListReturned
  /\ \E i \in VaultIds : vaultFiles[i].kind = "truncated" /\ hist[i].status = "crashed"
  /\ out.result.val # <<>>

(***************************************************************************)
(* C8.  get_timeline never aborts on a malformed plain record: the call    *)
(* returns, the malformed record is left out and every well-formed record  *)
(* within the bounds is returned.                                          *)
(***************************************************************************)
InBounds(timestamp, start_date, end_date) ==
  /\ start_date # <<>> => DtLeq(fromisoformat(start_date), fromisoformat(timestamp))
  /\ end_date # <<>> => DtLeq(fromisoformat(timestamp), fromisoformat(end_date))

WellFormedInBounds ==
  {memFiles[i].val : i \in {j \in PlainIds :
      /\ memFiles[j].kind = "json"
      /\ InBounds(memFiles[j].val.timestamp, out.start_date, out.end_date)}}

C8_TimelineNeverAborts ==
  out.op = "get_timeline" =>
    /\ out.result.kind = "ok"
    /\ Range(out.result.val) = WellFormedInBounds

(***************************************************************************)
(* C9.  get_timeline(start_date, end_date), when it returns, returns       *)
(* exactly the plain memories whose timestamp t satisfies                  *)
(* start_date <= t <= end_date, each bound applied only when given and     *)
(* both inclusive, each memory once, in ascending order of timestamp.      *)
(***************************************************************************)
Ascending(seq) ==
  \A j, k \in DOMAIN seq :
    j < k => DtLeq(fromisoformat(seq[j].timestamp), fromisoformat(seq[k].timestamp))

C9_TimelineExactAndAscending ==
  TimelineReturned =>
    /\ Range(out.result.val) = WellFormedInBounds
    /\ Len(out.result.val) = Cardinality(WellFormedInBounds)
    /\ Ascending(out.result.val)

\* two memories of different instants are listed, the older exactly at the
\* start bound, the newer exactly at the end bound
C9_Witness ==
  /\ TimelineReturned
  /\ Len(out.result.val) = 2
  /\ out.result.val[1].timestamp = out.start_date
  /\ out.result.val[2].timestamp = out.end_date
  /\ out.start_date # out.end_date

(***************************************************************************)
(* C10.  retrieve_memories(query, n_results, memory_type) returns at most  *)
(* n_results memories, all of type memory_type when one is given, the most *)
(* similar first, and of two results of equal similarity the one with the  *)
(* more recent timestamp first.                                            *)
(***************************************************************************)
SimilarityTo(query, memory) == Score(encode(<<query>>), encode(MemoryText(memory)))

C10_TopKFilteredRankedRecentFirst ==
  RetrieveReturned =>
    LET res == out.result.val IN
      /\ Len(res) <= out.n_results
      /\ out.memory_type # None =>
           \A r \in Range(res) : GetType(r.memory, "conversation") = out.memory_type
      /\ \A j, k \in DOMAIN res :
           j < k =>
             /\ SimilarityTo(out.query, res[j].memory) >= SimilarityTo(out.query, res[k].memory)
             /\ SimilarityTo(out.query, res[j].memory) = SimilarityTo(out.query, res[k].memory)
                  => DtLeq(fromisoformat(res[k].memory.timestamp),
                           fromisoformat(res[j].memory.timestamp))


(***************************************************************************)
(* C11.  A read that runs while a store_memory call of the same user is in *)
(* flight does not fail on that call's record and returns only complete    *)
(* records: get_timeline and retrieve_memories never raise a parse error   *)
(* while a store is between two of its statements, and every record they   *)
(* return is the whole content some store wrote.                           *)
(***************************************************************************)
StoreInFlight == call.pc # "idle"

WholeRecords == {hist[i].memory : i \in {j \in Ids : hist[j].status # "none"}}

C11_ReadersNeverSeeHalfWritten ==
  (out.op \in {"get_timeline", "retrieve_memories"} /\ StoreInFlight) =>
    /\ out.result # Raise("JSONDecodeError")
    /\ (out.op = "get_timeline" /\ out.result.kind = "ok") =>
         Range(out.result.val) \subseteq WholeRecords


(***************************************************************************)
(* Text.  A str is the sequence of its characters, so that strip, lower    *)
(* and the substring test `a in b` are computed as Python computes them.   *)
(***************************************************************************)
Whitespace == {" ", "\t", "\n"}

RECURSIVE lstrip(_)
lstrip(s) ==
  IF s = <<>> THEN <<>>
  ELSE IF Head(s) \in Whitespace THEN lstrip(Tail(s)) ELSE s

RECURSIVE rstrip(_)
rstrip(s) ==
  IF s = <<>> THEN <<>>
  ELSE IF s[Len(s)] \in Whitespace THEN rstrip(SubSeq(s, 1, Len(s) - 1)) ELSE s

strip(s) == rstrip(lstrip(s))

\* str.lower, on the capitals the inputs are written with
LowerChar(c) ==
  CASE c = "H" -> "h" [] c = "L" -> "l" [] c = "O" -> "o"
    [] c = "P" -> "p" [] c = "J" -> "j" [] OTHER -> c

lower(s) == [k \in DOMAIN s |-> LowerChar(s[k])]

\* a in b
IsSubstring(a, b) ==
  \E k \in 0..Len(b) : k + Len(a) <= Len(b) /\ SubSeq(b, k + 1, k + Len(a)) = a

(***************************************************************************)
(* A dict keeps its keys in insertion order: a sequence of <<key, value>>. *)
(***************************************************************************)
DictKeys(d) == {d[k][1] : k \in DOMAIN d}

DictGet(d, key, default) ==
  IF key \in DictKeys(d)
  THEN d[CHOOSE k \in DOMAIN d : d[k][1] = key][2]
  ELSE default

DictSet(d, key, value) ==
  IF key \in DictKeys(d)
  THEN [k \in DOMAIN d |-> IF d[k][1] = key THEN <<key, value>> ELSE d[k]]
  ELSE Append(d, <<key, value>>)

RECURSIVE SumValues(_)
SumValues(d) == IF d = <<>> THEN 0 ELSE d[1][2] + SumValues(Tail(d))

\* a float that is the quotient of two counts: <<numerator, denominator>>
FracLess(a, b) == a[1] * b[2] < b[1] * a[2]

\* max(items, key=value): the first item of greatest value
RECURSIVE MaxItem(_)
MaxItem(items) ==
  IF Len(items) = 1 THEN items[1]
  ELSE LET rest == MaxItem(Tail(items)) IN
         IF items[1][2] < rest[2] THEN rest ELSE items[1]

\* the same, the values being quotients
RECURSIVE MaxFracItem(_)
MaxFracItem(items) ==
  IF Len(items) = 1 THEN items[1]
  ELSE LET rest == MaxFracItem(Tail(items)) IN
         IF FracLess(items[1][2], rest[2]) THEN rest ELSE items[1]


(***************************************************************************)
(* EmotionAnalyzer.analyze_text                                            *)
(***************************************************************************)
\* the label literals analyze_text compares with
Lit_joy == <<"j", "o", "y">>
Lit_happy == <<"h", "a", "p", "p", "y">>
Lit_sadness == <<"s", "a", "d", "n", "e", "s", "s">>
Lit_sad == <<"s", "a", "d">>
Lit_anger == <<"a", "n", "g", "e", "r">>
Lit_fear == <<"f", "e", "a", "r">>
Lit_surprise == <<"s", "u", "r", "p", "r", "i", "s", "e">>
Lit_disgust == <<"d", "i", "s", "g", "u", "s", "t">>
Lit_anxiety == <<"a", "n", "x", "i", "e", "t", "y">>
Lit_nervous == <<"n", "e", "r", "v", "o", "u", "s">>
Lit_love == <<"l", "o", "v", "e">>
Lit_affection == <<"a", "f", "f", "e", "c", "t", "i", "o", "n">>

\* what the classifier can answer: raw labels, and scores in units of
\* 1/MaxScore
MaxScore == 2
MaxResults == 2

RawLabels == {<<"j", "o", "y">>, <<"H", "a", "p", "p", "y">>, <<"s", "a", "d", "n", "e", "s", "s">>, <<"a", "n", "g", "e", "r">>, <<"n", "e", "u", "t", "r", "a", "l">>, <<"n", "e", "r", "v", "o", "u", "s", "n", "e", "s", "s">>}

ModelResults == [label : RawLabels, score : 0..MaxScore]

\* the lists of at most n elements of S
SeqsUpTo(S, n) == UNION {[1..k -> S] : k \in 0..n}

\* self.text_emotion_model(text): the scored labels, or an exception
ModelOutcomes ==
  {Raise("RuntimeError")} \cup {Ok(results) : results \in SeqsUpTo(ModelResults, MaxResults)}

Texts == {<<>>, <<" ">>, <<" ", "\t", "\n">>, <<"h", "i">>, <<" ", "h", "i", " ">>}

NeutralResult ==
  [dominant_emotion |-> "neutral", confidence |-> <<1, 1>>, all_emotions |-> <<>>]

\* one pass of the mapping loop, lines 42-61
MapLabel(emotion_scores, result) ==
  LET label == lower(result.label)
      score == result.score
  IN  IF label \in {Lit_joy, Lit_happy}
        THEN DictSet(emotion_scores, "joy", DictGet(emotion_scores, "joy", 0) + score)
      ELSE IF label \in {Lit_sadness, Lit_sad}
        THEN DictSet(emotion_scores, "sadness", DictGet(emotion_scores, "sadness", 0) + score)
      ELSE IF label = Lit_anger THEN DictSet(emotion_scores, "anger", score)
      ELSE IF label = Lit_fear THEN DictSet(emotion_scores, "fear", score)
      ELSE IF label = Lit_surprise THEN DictSet(emotion_scores, "surprise", score)
      ELSE IF label = Lit_disgust THEN DictSet(emotion_scores, "disgust", score)
      ELSE IF IsSubstring(Lit_anxiety, label) \/ IsSubstring(Lit_nervous, label)
        THEN DictSet(emotion_scores, "anxiety", DictGet(emotion_scores, "anxiety", 0) + score)
      ELSE IF IsSubstring(Lit_love, label) \/ IsSubstring(Lit_affection, label)
        THEN DictSet(emotion_scores, "love", DictGet(emotion_scores, "love", 0) + score)
      ELSE emotion_scores

RECURSIVE MapLabels(_, _)
MapLabels(results, emotion_scores) ==
  IF results = <<>> THEN emotion_scores
  ELSE MapLabels(Tail(results), MapLabel(emotion_scores, Head(results)))

\* lines 64-66: v/total, when total > 0
Normalize(emotion_scores) ==
  LET total == SumValues(emotion_scores) IN
    [k \in DOMAIN emotion_scores |->
       <<emotion_scores[k][1],
         IF total > 0 THEN <<emotion_scores[k][2], total>>
                      ELSE <<emotion_scores[k][2], 1>> >>]

FallThrough == [kind |-> "fallthrough"]

\* the try block, lines 37-76: the result it returns, the exception that
\* leaves it, or neither
AnalyzeTry(model, t) ==
  IF model.kind = "raise" THEN model
  ELSE LET emotion_scores == Normalize(MapLabels(model.val, <<>>)) IN
         IF emotion_scores # <<>>
         THEN LET dominant_emotion == MaxFracItem(emotion_scores) IN
                Ok([dominant_emotion |-> dominant_emotion[1],
                    confidence |-> dominant_emotion[2],
                    all_emotions |-> emotion_scores,
                    timestamp |-> isoformat(t)])
         ELSE FallThrough


\* Mutant: no early return on blank text.
AnalyzeTextAlwaysClassifies(text, model, t) ==
  LET body == AnalyzeTry(model, t) IN
    IF body.kind = "ok" THEN [result |-> body, calls |-> 1]
    ELSE [result |-> Ok(NeutralResult), calls |-> 1]

\* Mutant: no except clause around the classifier call.
AnalyzeTextWithoutExcept(text, model, t) ==
  IF strip(text) = <<>> THEN [result |-> Ok(NeutralResult), calls |-> 0]
  ELSE LET body == AnalyzeTry(model, t) IN
         IF body.kind \in {"ok", "raise"} THEN [result |-> body, calls |-> 1]
         ELSE [result |-> Ok(NeutralResult), calls |-> 1]

\* analyze_text(text), the classifier answering `model` if it is called:
\* what the call returns or raises, and how often it called the classifier
analyze_text(text, model, t) ==
  IF strip(text) = <<>> THEN [result |-> Ok(NeutralResult), calls |-> 0]
  ELSE LET body == AnalyzeTry(model, t) IN
         IF body.kind = "ok" THEN [result |-> body, calls |-> 1]
         ELSE [result |-> Ok(NeutralResult), calls |-> 1]

AnalyzeText(text, model, t) ==
  /\ out = NoOut
  /\ DtLeq(now, t)
  /\ LET r == analyze_text(text, model, t) IN
       out' = [op |-> "analyze_text", text |-> text, model |-> model,
               calls |-> r.calls, result |-> r.result]
  /\ UNCHANGED <<engineVars, memFiles, vaultFiles, index, now, nextId, call, hist,
                 brainVars>>

\* (a call is made only where there is none yet: the guard of AnalyzeText,
\* stated before the inputs are drawn)
NextAnalyzer ==
  /\ out = NoOut
  /\ \E text \in Texts, model \in ModelOutcomes, t \in Datetimes :
       AnalyzeText(text, model, t)

SpecAnalyzer == Init /\ [][NextAnalyzer]_vars

(***************************************************************************)
(* C12.  analyze_text on empty or whitespace-only text returns             *)
(* dominant_emotion neutral, confidence 1.0 and an empty all_emotions, and *)
(* does not call the classifier, whatever the classifier would have        *)
(* answered, an exception included.                                        *)
(***************************************************************************)
Analyzed == out.op = "analyze_text"

Blank(text) == \A k \in DOMAIN text : text[k] \in Whitespace

NothingMappable(results) ==
  \A k \in DOMAIN results : MapLabel(<<>>, results[k]) = <<>>

C13_AnalyzeFailsSoft ==
  Analyzed =>
    /\ out.result.kind = "ok"
    /\ (out.model.kind = "raise" \/ NothingMappable(out.model.val)) =>
         out.result = Ok(NeutralResult)

\* text with words in it, and the classifier call raised
C13_Witness ==
  /\ Analyzed
  /\ ~Blank(out.text)
  /\ out.calls = 1
  /\ out.model.kind = "raise"
  /\ out.result = Ok(NeutralResult)


(***************************************************************************)
(* The personality profile: USERS_DIR/<user_id>/personality.json           *)
(***************************************************************************)
\* the profile _load_personality writes when there is none
DefaultPersonality(t) ==
  [name |-> "Echo", tone |-> "friendly", formality |-> "casual",
   empathy_level |-> "high", humor_level |-> "medium",
   curiosity_level |-> "high", memory_recall_frequency |-> <<3, 10>>,
   emotional_responsiveness |-> "adaptive", conversation_style |-> "reflective",
   created_at |-> isoformat(t), last_updated |-> isoformat(t)]

EmptyDict == [k \in {} |-> None]

\* personality[trait] = value
SetKey(dict, key, value) ==
  [k \in DOMAIN dict \cup {key} |-> IF k = key THEN value ELSE dict[k]]

\* update_personality_trait(trait, value) on the profile file: the file it
\* leaves, or the exception of json.load
update_personality_trait(file, trait, value) ==
  LET loaded == IF file.kind = "absent" THEN Ok(EmptyDict) ELSE json_loads(file) IN
    IF loaded.kind = "raise" THEN loaded
    ELSE Ok(json_dumps(SetKey(loaded.val, trait, value)))

TraitArgs ==
  {<<"empathy_level", "high">>, <<"empathy_level", "very_high">>,
   <<"formality", "formal">>, <<"formality", "very_casual">>,
   <<"humor_level", "high">>}

\* a call of update_personality_trait at time t
UpdatePersonalityTrait(trait, value, t) ==
  /\ DtLeq(now, t)
  /\ now' = t
  /\ LET result == update_personality_trait(personality_file, trait, value) IN
       /\ personality_file' = IF result.kind = "ok" THEN result.val ELSE personality_file
       /\ out' = [op |-> "update_personality_trait", trait |-> trait, value |-> value,
                  at |-> t, before |-> personality_file, result |-> result.kind]
  /\ UNCHANGED <<engineVars, memFiles, vaultFiles, index, nextId, call, hist,
                 personality, conversation_history, turn, callers>>

\* a user whose profile was written by _load_personality, or who has none
InitProfile ==
  /\ EngineAtWork
  /\ use_pinecone = FALSE
  /\ personality_file \in {NoFile, json_dumps(DefaultPersonality(now))}
  /\ personality = NoFile
  /\ conversation_history = <<>>
  /\ turn = Idle
  /\ callers = Resting

NextProfile ==
  \E a \in TraitArgs, t \in Datetimes : UpdatePersonalityTrait(a[1], a[2], t)

SpecProfile ==
  /\ InitProfile
  /\ [][NextProfile]_vars


(***************************************************************************)
(* C17.  update_personality_trait(name, value) is an idempotent overwrite  *)
(* that refreshes last_updated: after the call the stored profile holds    *)
(* value under name and a last_updated that is not older than the call,    *)
(* and the same call made again leaves the profile as it is.               *)
(***************************************************************************)
TraitWasSet == out.op = "update_personality_trait" /\ out.result = "ok"

C17_SetTraitOverwritesAndStamps ==
  TraitWasSet =>
    LET profile == personality_file.val IN
      /\ profile[out.trait] = out.value
      /\ update_personality_trait(personality_file, out.trait, out.value)
           = Ok(personality_file)
      /\ "last_updated" \in DOMAIN profile
      /\ DtLeq(out.at, fromisoformat(profile.last_updated))


(***************************************************************************)
(* EchoSoulAI._update_personality_based_on_interaction                     *)
(***************************************************************************)
formal_words == <<<<"p", "l", "e", "a", "s", "e">>,
                  <<"t", "h", "a", "n", "k", " ", "y", "o", "u">>,
                  <<"w", "o", "u", "l", "d", " ", "y", "o", "u">>,
                  <<"c", "o", "u", "l", "d", " ", "y", "o", "u">>>>

informal_words == <<<<"l", "o", "l">>,
                    <<"o", "m", "g">>,
                    <<"h", "e", "y">>,
                    <<"w", "a", "s", "s", "u", "p">>,
                    <<"b", "r", "u", "h">>>>

\* sum(1 for word in words if word in user_input.lower())
CountMatches(words, user_input) ==
  Cardinality({k \in DOMAIN words : IsSubstring(words[k], lower(user_input))})

\* "lol hey", "Please", "hey please", "ok"
Utterances ==
  {<<"l", "o", "l", " ", "h", "e", "y">>,
   <<"P", "l", "e", "a", "s", "e">>,
   <<"h", "e", "y", " ", "p", "l", "e", "a", "s", "e">>,
   <<"o", "k">>}

RecentWindow == 10
EmpathyThreshold == 7

\* seq[-n:]
LastN(seq, n) ==
  IF Len(seq) <= n THEN seq ELSE SubSeq(seq, Len(seq) - n + 1, Len(seq))

\* msg.get("emotion", "neutral")
EmotionOf(msg) == IF "emotion" \in DOMAIN msg THEN msg.emotion ELSE "neutral"

\* sum(1 for e in recent_emotions if e != "neutral")
EmotionalContent(recent) ==
  Cardinality({k \in DOMAIN recent : EmotionOf(recent[k]) # "neutral"})

\* lines 364-373, on the profile file
UpdateFormality(file, user_input) ==
  LET formal_count == CountMatches(formal_words, user_input)
      informal_count == CountMatches(informal_words, user_input)
  IN  IF informal_count > formal_count
        THEN update_personality_trait(file, "formality", "very_casual")
      ELSE IF formal_count > informal_count
        THEN update_personality_trait(file, "formality", "formal")
      ELSE Ok(file)

\* Mutant: empathy_level follows the recent emotions down as well as up.
UpdateEmpathyFollowsRecent(history, file, user_input) ==
  IF Len(history) > RecentWindow
  THEN LET emotional_content == EmotionalContent(LastN(history, RecentWindow))
           raised == IF emotional_content > EmpathyThreshold
                     THEN update_personality_trait(file, "empathy_level", "very_high")
                     ELSE update_personality_trait(file, "empathy_level", "high")
       IN  IF raised.kind = "raise" THEN raised
           ELSE UpdateFormality(raised.val, user_input)
  ELSE Ok(file)

\* _update_personality_based_on_interaction(user_input, emotion_analysis):
\* the profile file it leaves, or the exception of update_personality_trait
_update_personality_based_on_interaction(history, file, user_input) ==
  IF Len(history) > RecentWindow
  THEN LET emotional_content == EmotionalContent(LastN(history, RecentWindow))
           raised == IF emotional_content > EmpathyThreshold
                     THEN update_personality_trait(file, "empathy_level", "very_high")
                     ELSE Ok(file)
       IN  IF raised.kind = "raise" THEN raised
           ELSE UpdateFormality(raised.val, user_input)
  ELSE Ok(file)

MaxHist == 12

\* the dominant emotions analyze_text gives the turns
TurnEmotions == {"neutral", "joy"}

\* generate_response, lines 195-198: the trait update of a turn
TraitUpdate(user_input, emotion) ==
  /\ turn.pc = "idle"
  /\ LET result == _update_personality_based_on_interaction(
                     conversation_history, personality_file, user_input) IN
       /\ personality_file' = IF result.kind = "ok" THEN result.val ELSE personality_file
       /\ turn' = IF result.kind = "ok"
                  THEN [pc |-> "updated", user_input |-> user_input,
                        emotion |-> emotion, before |-> personality_file]
                  ELSE Idle
  /\ UNCHANGED <<engineVars, memFiles, vaultFiles, index, now, nextId, call, hist,
                 out, personality, conversation_history, callers>>

\* generate_response, lines 261-267: the turn joins the history (of the
\* entry, the field the trait update reads)
AppendHistory ==
  /\ turn.pc = "updated"
  /\ Len(conversation_history) < MaxHist
  /\ conversation_history' = Append(conversation_history, [emotion |-> turn.emotion])
  /\ turn' = Idle
  /\ UNCHANGED <<engineVars, memFiles, vaultFiles, index, now, nextId, call, hist,
                 out, personality, personality_file, callers>>

\* an EchoSoulAI at work on a fresh user: _load_personality wrote the default
InitTraits ==
  /\ EngineAtWork
  /\ use_pinecone = FALSE
  /\ personality_file = json_dumps(DefaultPersonality(now))
  /\ personality = DefaultPersonality(now)
  /\ conversation_history = <<>>
  /\ turn = Idle
  /\ callers = Resting

NextTraits ==
  \/ \E user_input \in Utterances, emotion \in TurnEmotions :
       TraitUpdate(user_input, emotion)
  \/ AppendHistory

SpecTraits ==
  /\ InitTraits
  /\ [][NextTraits]_vars

(***************************************************************************)
(* C14.  A trait update that finds at least 10 interactions in the history *)
(* (10 exactly included), more than 7 of the last 10 with an emotion other *)
(* than neutral, leaves empathy_level at very_high.                        *)
(***************************************************************************)
TraitUpdated == turn.pc = "updated"

C14_EmpathyRaisedFromTenInteractions ==
  ( /\ TraitUpdated
    /\ Len(conversation_history) >= 10
    /\ EmotionalContent(LastN(conversation_history, 10)) > 7 ) =>
    personality_file.val.empathy_level = "very_high"

(***************************************************************************)
(* C15.  Every trait update, whatever the length of the history, sets      *)
(* formality to very_casual when the utterance has more informal than      *)
(* formal matches, to formal when it has more formal than informal ones,   *)
(* and leaves formality as it was when the counts are equal.               *)
(***************************************************************************)
C15_FormalityFollowsUtterance ==
  TraitUpdated =>
    LET formal_count == CountMatches(formal_words, turn.user_input)
        informal_count == CountMatches(informal_words, turn.user_input)
        formality == personality_file.val.formality
    IN  /\ informal_count > formal_count => formality = "very_casual"
        /\ formal_count > informal_count => formality = "formal"
        /\ formal_count = informal_count => formality = turn.before.val.formality

(***************************************************************************)
(* C16.  Once empathy_level is very_high, no step of any sequence of trait *)
(* updates, with any utterance and any history, gives it another value.    *)
(***************************************************************************)
EmpathyVeryHigh(file) == file.val.empathy_level = "very_high"

C16_EmpathyNeverLowered ==
  [][EmpathyVeryHigh(personality_file) => EmpathyVeryHigh(personality_file')]_vars

\* a trait update ran its rules on a profile already at very_high, the last
\* 10 interactions no longer being emotional
C16_Witness ==
  /\ TraitUpdated
  /\ Len(conversation_history) > RecentWindow
  /\ EmotionalContent(LastN(conversation_history, RecentWindow)) <= EmpathyThreshold
  /\ EmpathyVeryHigh(turn.before)
  /\ EmpathyVeryHigh(personality_file)


(***************************************************************************)
(* TimelineManager.get_emotion_statistics and _generate_insights           *)
(***************************************************************************)
\* Mutant: the 13 categories of the analyzer stand in for the 11 of the
\* timeline manager.
AvailableEmotionsOfAnalyzer ==
  <<"joy", "sadness", "anger", "fear", "surprise", "disgust", "neutral",
    "excitement", "anxiety", "stress", "contentment", "love", "nostalgia">>

get_available_emotions ==
  <<"joy", "sadness", "anger", "fear", "surprise", "love",
    "anxiety", "stress", "neutral", "excitement", "contentment">>

positive_emotions == {"joy", "love", "excitement", "contentment", "surprise"}
negative_emotions == {"sadness", "anger", "fear", "anxiety", "stress"}

\* date_obj.strftime('%A'), the date being a count of days from a Monday
DayNames ==
  <<"Monday", "Tuesday", "Wednesday", "Thursday", "Friday", "Saturday", "Sunday">>

DaysInWeek == 7

DayName(date) == DayNames[(date % DaysInWeek) + 1]

\* counter[key] += 1 on a defaultdict(int)
Increment(counter, key) == DictSet(counter, key, DictGet(counter, key, 0) + 1)

\* lines 107-112: emotion_count
RECURSIVE CountEmotions(_, _)
CountEmotions(timeline_data, emotion_count) ==
  IF timeline_data = <<>> THEN emotion_count
  ELSE CountEmotions(Tail(timeline_data),
                     Increment(emotion_count, EmotionOf(Head(timeline_data))))

\* lines 107-113: emotion_by_type
RECURSIVE CountByType(_, _)
CountByType(timeline_data, emotion_by_type) ==
  IF timeline_data = <<>> THEN emotion_by_type
  ELSE LET entry == Head(timeline_data)
           memory_type == GetType(entry, "unknown")
       IN  CountByType(Tail(timeline_data),
             DictSet(emotion_by_type, memory_type,
               Increment(DictGet(emotion_by_type, memory_type, <<>>), EmotionOf(entry))))

\* lines 121-129: day_patterns
RECURSIVE CountByDay(_, _)
CountByDay(timeline_data, day_patterns) ==
  IF timeline_data = <<>> THEN day_patterns
  ELSE LET entry == Head(timeline_data)
           day_name == DayName(entry.date)
       IN  CountByDay(Tail(timeline_data),
             DictSet(day_patterns, day_name,
               Increment(DictGet(day_patterns, day_name, <<>>), entry.emotion)))

\* lines 132-138: the first day of the greatest total
RECURSIVE MostEmotionalDay(_, _, _)
MostEmotionalDay(day_patterns, most_emotional_day, max_emotions) ==
  IF day_patterns = <<>> THEN most_emotional_day
  ELSE LET total == SumValues(day_patterns[1][2]) IN
         IF total > max_emotions
         THEN MostEmotionalDay(Tail(day_patterns), day_patterns[1][1], total)
         ELSE MostEmotionalDay(Tail(day_patterns), most_emotional_day, max_emotions)

\* sum(emotion_count.get(e, 0) for e in emotions)
RECURSIVE CountIn(_, _)
CountIn(emotion_count, emotions) ==
  IF emotion_count = <<>> THEN 0
  ELSE (IF emotion_count[1][1] \in emotions THEN emotion_count[1][2] ELSE 0)
       + CountIn(Tail(emotion_count), emotions)

WideRange == 8
FewFeelings == 3
TrendWindow == 10
MaxInsights == 3

Insight(kind) == [kind |-> kind]

\* Mutant: the list is returned whole.
GenerateInsightsUncut(emotion_count, timeline_data) ==
  LET total == SumValues(emotion_count) IN
    IF total = 0 THEN <<Insight("no_data")>>
    ELSE
      LET top == MaxItem(emotion_count)
          one == <<[kind |-> "top_emotion", emotion |-> top[1],
                    percentage |-> <<top[2] * 100, total>>]>>
          unique_emotions == Len(emotion_count)
          two == IF unique_emotions >= WideRange THEN <<Insight("wide_range")>>
                 ELSE IF unique_emotions <= FewFeelings THEN <<Insight("few_feelings")>>
                 ELSE <<>>
          pos_count == CountIn(emotion_count, positive_emotions)
          neg_count == CountIn(emotion_count, negative_emotions)
          three == IF 2 * pos_count > 3 * neg_count THEN <<Insight("positive")>>
                   ELSE IF 2 * neg_count > 3 * pos_count THEN <<Insight("challenging")>>
                   ELSE <<Insight("balanced")>>
          recent == LastN(timeline_data, TrendWindow)
          recent_pos == Cardinality({k \in DOMAIN recent : recent[k].emotion \in positive_emotions})
          recent_neg == Cardinality({k \in DOMAIN recent : recent[k].emotion \in negative_emotions})
          four == IF Len(timeline_data) >= TrendWindow
                  THEN IF recent_pos > recent_neg THEN <<Insight("recent_positive")>>
                       ELSE IF recent_neg > recent_pos THEN <<Insight("recent_complex")>>
                       ELSE <<>>
                  ELSE <<>>
      IN  one \o two \o three \o four

\* Mutant: the recent trend is looked at before the balance.
GenerateInsightsTrendBeforeBalance(emotion_count, timeline_data) ==
  LET total == SumValues(emotion_count) IN
    IF total = 0 THEN <<Insight("no_data")>>
    ELSE
      LET top == MaxItem(emotion_count)
          one == <<[kind |-> "top_emotion", emotion |-> top[1],
                    percentage |-> <<top[2] * 100, total>>]>>
          unique_emotions == Len(emotion_count)
          two == IF unique_emotions >= WideRange THEN <<Insight("wide_range")>>
                 ELSE IF unique_emotions <= FewFeelings THEN <<Insight("few_feelings")>>
                 ELSE <<>>
          pos_count == CountIn(emotion_count, positive_emotions)
          neg_count == CountIn(emotion_count, negative_emotions)
          three == IF 2 * pos_count > 3 * neg_count THEN <<Insight("positive")>>
                   ELSE IF 2 * neg_count > 3 * pos_count THEN <<Insight("challenging")>>
                   ELSE <<Insight("balanced")>>
          recent == LastN(timeline_data, TrendWindow)
          recent_pos == Cardinality({k \in DOMAIN recent : recent[k].emotion \in positive_emotions})
          recent_neg == Cardinality({k \in DOMAIN recent : recent[k].emotion \in negative_emotions})
          four == IF Len(timeline_data) >= TrendWindow
                  THEN IF recent_pos > recent_neg THEN <<Insight("recent_positive")>>
                       ELSE IF recent_neg > recent_pos THEN <<Insight("recent_complex")>>
                       ELSE <<>>
                  ELSE <<>>
      IN  Prefix(one \o two \o four \o three, MaxInsights)

\* _generate_insights(emotion_count, timeline_data)
_generate_insights(emotion_count, timeline_data) ==
  LET total == SumValues(emotion_count) IN
    IF total = 0 THEN <<Insight("no_data")>>
    ELSE
      LET top == MaxItem(emotion_count)
          one == <<[kind |-> "top_emotion", emotion |-> top[1],
                    percentage |-> <<top[2] * 100, total>>]>>
          unique_emotions == Len(emotion_count)
          two == IF unique_emotions >= WideRange THEN <<Insight("wide_range")>>
                 ELSE IF unique_emotions <= FewFeelings THEN <<Insight("few_feelings")>>
                 ELSE <<>>
          pos_count == CountIn(emotion_count, positive_emotions)
          neg_count == CountIn(emotion_count, negative_emotions)
          three == IF 2 * pos_count > 3 * neg_count THEN <<Insight("positive")>>
                   ELSE IF 2 * neg_count > 3 * pos_count THEN <<Insight("challenging")>>
                   ELSE <<Insight("balanced")>>
          recent == LastN(timeline_data, TrendWindow)
          recent_pos == Cardinality({k \in DOMAIN recent : recent[k].emotion \in positive_emotions})
          recent_neg == Cardinality({k \in DOMAIN recent : recent[k].emotion \in negative_emotions})
          four == IF Len(timeline_data) >= TrendWindow
                  THEN IF recent_pos > recent_neg THEN <<Insight("recent_positive")>>
                       ELSE IF recent_neg > recent_pos THEN <<Insight("recent_complex")>>
                       ELSE <<>>
                  ELSE <<>>
      IN  Prefix(one \o two \o three \o four, MaxInsights)


\* get_emotion_statistics(timeline_data)
get_emotion_statistics(timeline_data) ==
  IF timeline_data = <<>> THEN EmptyDict
  ELSE
    LET emotion_count == CountEmotions(timeline_data, <<>>) IN
      [total_memories |-> Len(timeline_data),
       emotion_distribution |-> emotion_count,
       dominant_emotion |-> MaxItem(emotion_count)[1],
       emotion_by_type |-> CountByType(timeline_data, <<>>),
       most_emotional_day |-> MostEmotionalDay(CountByDay(timeline_data, <<>>), None, 0),
       emotional_diversity |-> <<Len(emotion_count), Len(get_available_emotions)>>,
       insights |-> _generate_insights(emotion_count, timeline_data)]

\* the windows: entries as get_timeline_data makes them, oldest first, one
\* a day
MaxWindow == 10

TimelineEmotions == {"joy", "sadness", "neutral"}

DayStrides == {1}

Window(emotions, stride) ==
  [k \in DOMAIN emotions |->
     [emotion |-> emotions[k], type |-> "conversation", date |-> stride * (k - 1)]]

GetEmotionStatistics(timeline_data) ==
  /\ out = NoOut
  /\ out' = [op |-> "get_emotion_statistics", timeline_data |-> timeline_data,
             result |-> get_emotion_statistics(timeline_data)]
  /\ UNCHANGED <<engineVars, memFiles, vaultFiles, index, now, nextId, call, hist,
                 brainVars>>

\* _generate_insights called by itself, on the counts of the window
GenerateInsights(timeline_data) ==
  /\ out = NoOut
  /\ out' = [op |-> "_generate_insights", timeline_data |-> timeline_data,
             result |-> _generate_insights(CountEmotions(timeline_data, <<>>),
                                           timeline_data)]
  /\ UNCHANGED <<engineVars, memFiles, vaultFiles, index, now, nextId, call, hist,
                 brainVars>>

InitTimeline ==
  /\ Init
  /\ use_pinecone = FALSE

\* (a call is made only where there is none yet: the guard of the two
\* actions, stated before the windows are drawn)
NextTimeline ==
  \/ /\ out = NoOut
     /\ \E emotions \in SeqsUpTo(TimelineEmotions, MaxWindow), stride \in DayStrides :
          GetEmotionStatistics(Window(emotions, stride))
  \/ /\ out = NoOut
     /\ \E emotions \in SeqsUpTo(TimelineEmotions, MaxWindow), stride \in DayStrides :
          GenerateInsights(Window(emotions, stride))

SpecTimeline ==
  /\ InitTimeline
  /\ [][NextTimeline]_vars

(***************************************************************************)
(* C18.  For every window the insight list has at most 3 entries, and for  *)
(* every window that is not empty its first entry is the top-emotion       *)
(* insight and names an emotion no other emotion of the window is more     *)
(* frequent than.                                                          *)
(***************************************************************************)
InsightsMade ==
  \/ out.op = "_generate_insights"
  \/ out.op = "get_emotion_statistics" /\ out.timeline_data # <<>>

InsightList ==
  IF out.op = "_generate_insights" THEN out.result ELSE out.result.insights

Occurrences(timeline_data, emotion) ==
  Cardinality({k \in DOMAIN timeline_data : timeline_data[k].emotion = emotion})

C18_AtMostThreeInsightsTopFirst ==
  InsightsMade =>
    /\ Len(InsightList) <= 3
    /\ out.timeline_data # <<>> =>
         /\ InsightList[1].kind = "top_emotion"
         /\ \A k \in DOMAIN out.timeline_data :
              Occurrences(out.timeline_data, out.timeline_data[k].emotion)
                <= Occurrences(out.timeline_data, InsightList[1].emotion)

\* ten joyful entries: all four rules have something to say, three are kept
C18_Witness ==
  /\ out.op = "get_emotion_statistics"
  /\ Len(out.timeline_data) >= 10
  /\ \A k \in DOMAIN out.timeline_data : out.timeline_data[k].emotion = "joy"
  /\ Len(out.result.insights) = 3
  /\ out.result.insights[1].kind = "top_emotion"

(***************************************************************************)
(* C19.  For a window of 3 memories with the emotions joy, joy, sadness,   *)
(* on three different dates, get_emotion_statistics reports                *)
(* dominant_emotion joy, emotion_distribution {joy: 2, sadness: 1} and     *)
(* emotional_diversity 2/11.                                               *)
(***************************************************************************)
JoyJoySadness(timeline_data) ==
  /\ Len(timeline_data) = 3
  /\ Occurrences(timeline_data, "joy") = 2
  /\ Occurrences(timeline_data, "sadness") = 1
  /\ \A j, k \in 1..3 : j # k => timeline_data[j].date # timeline_data[k].date

C19_JoyJoySadnessStatistics ==
  (out.op = "get_emotion_statistics" /\ JoyJoySadness(out.timeline_data)) =>
    /\ out.result.dominant_emotion = "joy"
    /\ DictKeys(out.result.emotion_distribution) = {"joy", "sadness"}
    /\ Len(out.result.emotion_distribution) = 2
    /\ DictGet(out.result.emotion_distribution, "joy", 0) = 2
    /\ DictGet(out.result.emotion_distribution, "sadness", 0) = 1
    /\ out.result.emotional_diversity[1] * 11 = 2 * out.result.emotional_diversity[2]

C19_Witness ==
  /\ out.op = "get_emotion_statistics"
  /\ JoyJoySadness(out.timeline_data)
  /\ out.timeline_data[3].emotion = "sadness"
  /\ out.result.total_memories = 3
  /\ out.result.dominant_emotion = "joy"


(***************************************************************************)
(* EchoSoulAI.generate_response: one turn, statement by statement, on the  *)
(* engine above                                                            *)
(***************************************************************************)
\* the characters of the utterances the engine stores
Chars(content) ==
  CASE content = "c1" -> <<"c", "1">>
    [] content = "c2" -> <<"c", "2">>

\* EmotionAnalyzer.get_emotional_response_style
response_styles ==
  [joy |-> [tone |-> "enthusiastic", response_length |-> "medium",
            emoji_frequency |-> "high", empathy_level |-> "celebratory"],
   sadness |-> [tone |-> "gentle", response_length |-> "longer",
                emoji_frequency |-> "low", empathy_level |-> "high"],
   anxiety |-> [tone |-> "calm", response_length |-> "medium",
                emoji_frequency |-> "medium", empathy_level |-> "reassuring"],
   anger |-> [tone |-> "neutral", response_length |-> "shorter",
              emoji_frequency |-> "none", empathy_level |-> "understanding"],
   love |-> [tone |-> "warm", response_length |-> "medium",
             emoji_frequency |-> "high", empathy_level |-> "reciprocal"],
   neutral |-> [tone |-> "balanced", response_length |-> "medium",
                emoji_frequency |-> "medium", empathy_level |-> "normal"]]

get_emotional_response_style(user_emotion, confidence) ==
  IF user_emotion \in DOMAIN response_styles
  THEN response_styles[user_emotion]
  ELSE response_styles["neutral"]

\* Mutant: the turn's memory is stored before the retrieval.
StepsPersistFirst ==
  <<"classify", "persist", "retrieve", "trait-update", "response-style">>

\* the statements of generate_response that act on the parts, in the order
\* of lines 186, 189, 195, 201 and 258
generate_response_steps ==
  <<"classify", "retrieve", "trait-update", "response-style", "persist">>

StepDue(step) ==
  /\ turn.pc = "running"
  /\ Len(turn.steps) < Len(generate_response_steps)
  /\ generate_response_steps[Len(turn.steps) + 1] = step

StepDone(step, field, value) ==
  SetKey([turn EXCEPT !.steps = Append(@, step)], field, value)

\* n_results of line 191
TurnResults == 3

\* what the classifier answers in a turn
TurnModelOutcomes ==
  {Raise("RuntimeError"), Ok(<<[label |-> Lit_joy, score |-> 1]>>)}

\* lines 248-256, the fields the engine reads
ConversationMemory ==
  [type |-> "conversation", content |-> turn.user_input,
   emotion |-> turn.emotion_analysis.dominant_emotion]

turnFrame == <<engineVars, memFiles, vaultFiles, index, now, nextId, call, hist, out,
               personality, callers>>

\* the call: generate_response(user_input)
TurnBegin(user_input) ==
  /\ turn.pc \in {"idle", "returned"}
  /\ call.pc = "idle"
  /\ nextId <= MaxMem
  /\ turn' = [pc |-> "running", steps |-> <<>>, user_input |-> user_input,
              emotion_analysis |-> NeutralResult, relevant_memories |-> <<>>,
              history_seen |-> <<>>, response_style |-> response_styles["neutral"],
              memory_id |-> 0]
  /\ UNCHANGED <<turnFrame, personality_file, conversation_history>>

\* line 186
TurnClassify(model) ==
  /\ StepDue("classify")
  /\ turn' = StepDone("classify", "emotion_analysis",
                      analyze_text(Chars(turn.user_input), model, now).result.val)
  /\ UNCHANGED <<turnFrame, personality_file, conversation_history>>

\* lines 189-192; an exception of the embedding leaves generate_response
TurnRetrieve(providerOk) ==
  /\ StepDue("retrieve")
  /\ \E held \in Perms(IndexIds) :
       LET result == retrieve_memories(held, turn.user_input, TurnResults, None,
                                       providerOk) IN
         turn' = IF result.kind = "ok"
                 THEN StepDone("retrieve", "relevant_memories", result.val)
                 ELSE Idle
  /\ UNCHANGED <<turnFrame, personality_file, conversation_history>>

\* lines 195-198
TurnTraitUpdate ==
  /\ StepDue("trait-update")
  /\ LET result == _update_personality_based_on_interaction(
                     conversation_history, personality_file, Chars(turn.user_input)) IN
       /\ personality_file' = IF result.kind = "ok" THEN result.val ELSE personality_file
       /\ turn' = IF result.kind = "ok"
                  THEN StepDone("trait-update", "history_seen", conversation_history)
                  ELSE Idle
  /\ UNCHANGED <<turnFrame, conversation_history>>

\* lines 201-245: the style, and the response of the language model
TurnStyle ==
  /\ StepDue("response-style")
  /\ turn' = StepDone("response-style", "response_style",
                      get_emotional_response_style(
                        turn.emotion_analysis.dominant_emotion,
                        turn.emotion_analysis.confidence))
  /\ UNCHANGED <<turnFrame, personality_file, conversation_history>>

\* line 258: store_memory is called; its statements are the actions
\* StoreBegin, StoreWrite and StoreIndex
TurnPersist ==
  /\ StepDue("persist")
  /\ call.pc = "idle"
  /\ turn' = [turn EXCEPT !.pc = "storing", !.memory_id = nextId]
  /\ UNCHANGED <<turnFrame, personality_file, conversation_history>>

TurnStoreBegin(t) ==
  /\ turn.pc = "storing"
  /\ hist[turn.memory_id].status = "none"
  /\ StoreBegin(ConversationMemory, FALSE, t)

\* line 258: store_memory has returned, or raised
TurnPersisted ==
  /\ turn.pc = "storing"
  /\ hist[turn.memory_id].status \in {"returned", "raised"}
  /\ turn' = IF hist[turn.memory_id].status = "returned"
             THEN [turn EXCEPT !.pc = "running", !.steps = Append(@, "persist")]
             ELSE Idle
  /\ UNCHANGED <<turnFrame, personality_file, conversation_history>>

\* lines 261-275
TurnReturn ==
  /\ turn.pc = "running"
  /\ Len(turn.steps) = Len(generate_response_steps)
  /\ conversation_history' =
       Append(conversation_history,
              [user |-> turn.user_input, echo |-> "response",
               emotion |-> turn.emotion_analysis.dominant_emotion,
               timestamp |-> isoformat(now), memory_id |-> turn.memory_id])
  /\ turn' = [turn EXCEPT !.pc = "returned"]
  /\ UNCHANGED <<turnFrame, personality_file>>

NextTurn ==
  \/ \E user_input \in Contents : TurnBegin(user_input)
  \/ \E model \in TurnModelOutcomes : TurnClassify(model)
  \/ \E providerOk \in BOOLEAN : TurnRetrieve(providerOk)
  \/ TurnTraitUpdate
  \/ TurnStyle
  \/ TurnPersist
  \/ \E t \in Datetimes : TurnStoreBegin(t)
  \/ StoreWrite
  \/ \E providerOk \in BOOLEAN : StoreIndex(providerOk)
  \/ TurnPersisted
  \/ TurnReturn

\* an EchoSoulAI at work on a fresh user, on either vector database
InitTurn ==
  /\ EngineAtWork
  /\ personality_file = json_dumps(DefaultPersonality(now))
  /\ personality = DefaultPersonality(now)
  /\ conversation_history = <<>>
  /\ turn = Idle
  /\ callers = Resting

SpecTurn ==
  /\ InitTurn
  /\ [][NextTurn]_vars


(***************************************************************************)
(* C20.  Within one turn the steps run in the order classify, retrieve,    *)
(* trait-update, response-style, persist; the memory a turn stores is      *)
(* never among the memories that turn retrieved; and the trait update of a *)
(* turn reads the history of the earlier turns alone.                      *)
(***************************************************************************)
TurnOrder == <<"classify", "retrieve", "trait-update", "response-style", "persist">>

TurnReturned == turn.pc = "returned"

RetrievedIds == {turn.relevant_memories[k].memory.id : k \in DOMAIN turn.relevant_memories}

C20_TurnStepsInOrder ==
  /\ turn.pc \in {"running", "storing", "returned"} =>
       turn.steps = Prefix(TurnOrder, Len(turn.steps))
  /\ TurnReturned =>
       /\ turn.steps = TurnOrder
       /\ hist[turn.memory_id].status = "returned"
       /\ turn.memory_id \notin RetrievedIds
       /\ conversation_history[Len(conversation_history)].memory_id = turn.memory_id
       /\ turn.history_seen =
            Prefix(conversation_history, Len(conversation_history) - 1)

\* the second turn of a session returned, having retrieved the memory of
\* the first
C20_Witness ==
  /\ TurnReturned
  /\ Len(conversation_history) = 2
  /\ RetrievedIds = {conversation_history[1].memory_id}
  /\ turn.history_seen = <<conversation_history[1]>>


(***************************************************************************)
(* C21.  When the classifier returns at least one label the mapping knows, *)
(* all_emotions sums to 1, the entry of every taxonomy label is the sum of *)
(* the scores of the raw labels mapped to it over the sum of all mapped    *)
(* scores, dominant_emotion is an entry of greatest score and confidence   *)
(* is that entry's share.                                                  *)
(***************************************************************************)
\* the taxonomy entries a raw label is mapped to (one, or none)
TargetsOf(label) == DictKeys(MapLabel(<<>>, [label |-> label, score |-> 1]))

RECURSIVE MappedMass(_, _)
MappedMass(results, targets) ==
  IF results = <<>> THEN 0
  ELSE (IF TargetsOf(Head(results).label) \cap targets # {}
        THEN Head(results).score ELSE 0)
       + MappedMass(Tail(results), targets)

FracEq(a, b) == a[1] * b[2] = b[1] * a[2]

RECURSIVE FracSum(_)
FracSum(d) ==
  IF d = <<>> THEN <<0, 1>>
  ELSE LET rest == FracSum(Tail(d)) IN
         <<d[1][2][1] * rest[2] + rest[1] * d[1][2][2], d[1][2][2] * rest[2]>>

ClassifiedMappable ==
  /\ Analyzed
  /\ ~Blank(out.text)
  /\ out.model.kind = "ok"
  /\ ~NothingMappable(out.model.val)

C21_DistributionNormalizedAndAdded ==
  ClassifiedMappable =>
    LET results == out.model.val
        all_emotions == out.result.val.all_emotions
        taxonomy == UNION {TargetsOf(results[k].label) : k \in DOMAIN results}
    IN  /\ FracEq(FracSum(all_emotions), <<1, 1>>)
        /\ DictKeys(all_emotions) = taxonomy
        /\ \A e \in taxonomy :
             FracEq(DictGet(all_emotions, e, <<0, 1>>),
                    <<MappedMass(results, {e}), MappedMass(results, taxonomy)>>)
        /\ \A k \in DOMAIN all_emotions :
             ~FracLess(out.result.val.confidence, all_emotions[k][2])
        /\ FracEq(out.result.val.confidence,
                  DictGet(all_emotions, out.result.val.dominant_emotion, <<0, 1>>))


\* lines 21-26: the taxonomy
emotion_categories ==
  <<"joy", "sadness", "anger", "fear", "surprise", "disgust", "neutral",
    "excitement", "anxiety", "stress", "contentment", "love", "nostalgia">>

(***************************************************************************)
(* C22.  When the classifier's output consists of raw labels that are      *)
(* names of the taxonomy (neutral among them), every score is attributed   *)
(* to the entry of the same name, and dominant_emotion is the classifier's *)
(* top label.                                                              *)
(***************************************************************************)
TaxonomyNameOf(label) ==
  CASE label = Lit_joy -> "joy"
    [] label = Lit_sadness -> "sadness"
    [] label = Lit_anger -> "anger"
    [] label = <<"n", "e", "u", "t", "r", "a", "l">> -> "neutral"
    [] OTHER -> None

\* distinct taxonomy names with positive scores and one top label
TaxonomyOutput(results) ==
  /\ results # <<>>
  /\ \A k \in DOMAIN results :
       /\ \E c \in DOMAIN emotion_categories :
            emotion_categories[c] = TaxonomyNameOf(results[k].label)
       /\ results[k].score > 0
  /\ \A j, k \in DOMAIN results :
       j # k => /\ results[j].label # results[k].label
                /\ results[j].score # results[k].score

TopLabel(results) ==
  TaxonomyNameOf(results[CHOOSE k \in DOMAIN results :
                   \A j \in DOMAIN results : results[j].score <= results[k].score].label)

C22_TaxonomyNamesKeepTheirEntry ==
  (/\ Analyzed
   /\ ~Blank(out.text)
   /\ out.model.kind = "ok"
   /\ TaxonomyOutput(out.model.val)) =>
    LET results == out.model.val
        all_emotions == out.result.val.all_emotions
    IN  /\ out.result.val.dominant_emotion = TopLabel(results)
        /\ \A k \in DOMAIN results :
             /\ TaxonomyNameOf(results[k].label) \in DictKeys(all_emotions)
             /\ DictGet(all_emotions, TaxonomyNameOf(results[k].label), <<0, 1>>)[1]
                  = results[k].score


\* ---- analyze_conversation_pattern ----

MaxMessages == 6

RecentEmotions == 5
EmotionHistory == 10

\* lines 102-103
analyzer_positive_emotions == {"joy", "excitement", "love", "contentment", "surprise"}
analyzer_negative_emotions == {"sadness", "anger", "fear", "anxiety", "stress", "disgust"}

\* lines 88-91: the emotions of the messages that have one
RECURSIVE EmotionsOf(_)
EmotionsOf(messages) ==
  IF messages = <<>> THEN <<>>
  ELSE (IF "emotion" \in DOMAIN Head(messages) /\ Head(messages).emotion # ""
        THEN <<Head(messages).emotion>> ELSE <<>>)
       \o EmotionsOf(Tail(messages))

\* Counter(emotions)
RECURSIVE Counter(_, _)
Counter(emotions, counted) ==
  IF emotions = <<>> THEN counted
  ELSE Counter(Tail(emotions), Increment(counted, Head(emotions)))

PatternDefault ==
  [mood_trend |-> "stable", emotional_variety |-> <<0, 1>>, dominant_pattern |-> "neutral"]

\* lines 83-125
analyze_conversation_pattern(messages) ==
  LET emotions == EmotionsOf(messages) IN
    IF messages = <<>> THEN PatternDefault
    ELSE IF emotions = <<>> THEN PatternDefault
    ELSE LET recent_emotions == LastN(emotions, RecentEmotions)
             pos_count ==
               Cardinality({k \in DOMAIN recent_emotions :
                              recent_emotions[k] \in analyzer_positive_emotions})
             neg_count ==
               Cardinality({k \in DOMAIN recent_emotions :
                              recent_emotions[k] \in analyzer_negative_emotions})
         IN  [mood_trend |-> IF pos_count > neg_count THEN "positive"
                             ELSE IF neg_count > pos_count THEN "negative"
                             ELSE "stable",
              emotional_variety |->
                <<Cardinality({emotions[k] : k \in DOMAIN emotions}),
                  Len(emotion_categories)>>,
              dominant_pattern |-> MaxItem(Counter(emotions, <<>>))[1],
              emotion_history |-> LastN(emotions, EmotionHistory)]

PatternEmotions == {"joy", "sadness", "neutral", "disgust"}

\* a message of the history, with or without an emotion
PatternMessages ==
  {[content |-> "c1"]} \cup {[content |-> "c1", emotion |-> e] : e \in PatternEmotions}

AnalyzeConversationPattern(messages) ==
  /\ out = NoOut
  /\ out' = [op |-> "analyze_conversation_pattern", messages |-> messages,
             result |-> analyze_conversation_pattern(messages)]
  /\ UNCHANGED <<engineVars, memFiles, vaultFiles, index, now, nextId, call, hist,
                 brainVars>>

NextPattern ==
  /\ out = NoOut
  /\ \E messages \in SeqsUpTo(PatternMessages, MaxMessages) :
       AnalyzeConversationPattern(messages)

InitPattern ==
  /\ Init
  /\ use_pinecone = FALSE

SpecPattern ==
  /\ InitPattern
  /\ [][NextPattern]_vars

(***************************************************************************)
(* C23.  mood_trend is taken from the last 5 entries of the history,       *)
(* entries without an emotion counted among the 5: positive if more of     *)
(* them carry an emotion of the positive set than of the negative set,     *)
(* negative if fewer, stable otherwise.                                    *)
(***************************************************************************)
PatternAnalyzed == out.op = "analyze_conversation_pattern"

CarriedIn(entries, emotions) ==
  Cardinality({k \in DOMAIN entries :
                 "emotion" \in DOMAIN entries[k] /\ entries[k].emotion \in emotions})

C23_MoodTrendOfLastFiveEntries ==
  PatternAnalyzed =>
    LET last == LastN(out.messages, RecentEmotions)
        pos == CarriedIn(last, analyzer_positive_emotions)
        neg == CarriedIn(last, analyzer_negative_emotions)
    IN  out.result.mood_trend =
          (IF pos > neg THEN "positive" ELSE IF neg > pos THEN "negative" ELSE "stable")


\* ---- windows of many emotions and of chosen days ----

MaxTail == 6

\* the emotions a window opens with: none, four, eight, or ten that together
\* with TimelineEmotions are the thirteen of the taxonomy
Leads ==
  { <<>>,
    <<"anger", "fear", "love", "surprise">>,
    <<"anger", "fear", "love", "surprise", "anxiety", "stress", "excitement",
      "contentment">>,
    <<"anger", "fear", "love", "surprise", "anxiety", "stress", "excitement",
      "contentment", "disgust", "nostalgia">> }

\* the day of the first entry, and the days from one entry to the next
FirstDays == {0, 1}
DayGaps == {1, 6}

\* entries as get_timeline_data makes them, oldest first
WindowFrom(emotions, first, gap) ==
  [k \in DOMAIN emotions |->
     [emotion |-> emotions[k], type |-> "conversation", date |-> first + gap * (k - 1)]]

NextWindows ==
  /\ out = NoOut
  /\ \E lead \in Leads, tail \in SeqsUpTo(TimelineEmotions, MaxTail),
        first \in FirstDays, gap \in DayGaps :
       GetEmotionStatistics(WindowFrom(lead \o tail, first, gap))

SpecWindows ==
  /\ InitTimeline
  /\ [][NextWindows]_vars

(***************************************************************************)
(* C24.  For a window that is not empty the list holds exactly one insight *)
(* of rule 3, and the recent-trend insight of rule 4 is in the list        *)
(* exactly when the window has 4 to 7 distinct emotions (rule 2 silent),   *)
(* at least 10 entries, and unequal counts of positive and negative        *)
(* emotions among its last 10.                                             *)
(***************************************************************************)
StatisticsMade == out.op = "get_emotion_statistics" /\ out.timeline_data # <<>>

KindsAt(insights, kinds) == {k \in DOMAIN insights : insights[k].kind \in kinds}

DistinctEmotions(timeline_data) ==
  Cardinality({timeline_data[k].emotion : k \in DOMAIN timeline_data})

LastTenUnequal(timeline_data) ==
  LET recent == LastN(timeline_data, 10) IN
    Cardinality({k \in DOMAIN recent : recent[k].emotion \in positive_emotions})
      # Cardinality({k \in DOMAIN recent : recent[k].emotion \in negative_emotions})

C24_TrendOnlyWhenDiversitySilent ==
  StatisticsMade =>
    LET insights == out.result.insights
        window == out.timeline_data
    IN  /\ Cardinality(KindsAt(insights, {"positive", "challenging", "balanced"})) = 1
        /\ KindsAt(insights, {"recent_positive", "recent_complex"}) # {}
             <=> /\ DistinctEmotions(window) \in 4..7
                 /\ Len(window) >= 10
                 /\ LastTenUnequal(window)
        /\ KindsAt(insights, {"recent_positive", "recent_complex"}) \subseteq {3}

\* four emotions and six joys: top emotion, balance and recent trend
C24_Witness ==
  /\ StatisticsMade
  /\ Len(out.timeline_data) = 10
  /\ DistinctEmotions(out.timeline_data) = 5
  /\ Len(out.result.insights) = 3
  /\ out.result.insights[3].kind = "recent_positive"


(***************************************************************************)
(* C25.  The insight rules of the timeline and the pattern operation of    *)
(* the analyzer use the same positive set and the same negative set: an    *)
(* emotion by itself (disgust too) counts as positive, as negative or as   *)
(* neither for both, so the mood trend of a history of that one emotion    *)
(* and the lean reported for a window of that one emotion agree.           *)
(***************************************************************************)
OneEmotion ==
  /\ PatternAnalyzed
  /\ Len(out.messages) = 1
  /\ "emotion" \in DOMAIN out.messages[1]

LeanOf(emotion) ==
  LET insights == _generate_insights(<<<<emotion, 1>>>>, WindowFrom(<<emotion>>, 0, 1))
  IN  {insights[k].kind : k \in DOMAIN insights}

C25_SameSetsInTimelineAndPattern ==
  OneEmotion =>
    LET emotion == out.messages[1].emotion IN
      /\ emotion \in analyzer_positive_emotions <=> emotion \in positive_emotions
      /\ emotion \in analyzer_negative_emotions <=> emotion \in negative_emotions
      /\ out.result.mood_trend = "positive" <=> "positive" \in LeanOf(emotion)
      /\ out.result.mood_trend = "negative" <=> "challenging" \in LeanOf(emotion)


(***************************************************************************)
(* C26.  most_emotional_day is the weekday with the most entries of the    *)
(* window; of several weekdays with the most entries it is the first in    *)
(* the order Monday to Sunday, whatever the order of the entries; for the  *)
(* empty window it is not set.                                             *)
(***************************************************************************)
EntriesOn(timeline_data, day) ==
  Cardinality({k \in DOMAIN timeline_data : DayName(timeline_data[k].date) = day})

BusiestDayMondayFirst(timeline_data) ==
  DayNames[CHOOSE i \in DOMAIN DayNames :
             /\ \A j \in DOMAIN DayNames :
                  EntriesOn(timeline_data, DayNames[j]) <= EntriesOn(timeline_data, DayNames[i])
             /\ \A j \in 1..(i - 1) :
                  EntriesOn(timeline_data, DayNames[j]) < EntriesOn(timeline_data, DayNames[i])]

C26_BusiestDayTiesMondayFirst ==
  out.op = "get_emotion_statistics" =>
    IF out.timeline_data = <<>>
    THEN "most_emotional_day" \notin DOMAIN out.result
    ELSE out.result.most_emotional_day = BusiestDayMondayFirst(out.timeline_data)


(***************************************************************************)
(* C27.  For every window of emotions of the 13-label taxonomy,            *)
(* emotional_diversity lies within 0 and 1: the distinct emotions of the   *)
(* window are not more than the divisor.                                   *)
(***************************************************************************)
OfTheTaxonomy(timeline_data) ==
  \A k \in DOMAIN timeline_data :
    \E c \in DOMAIN emotion_categories : emotion_categories[c] = timeline_data[k].emotion

C27_DiversityWithinUnitInterval ==
  (StatisticsMade /\ OfTheTaxonomy(out.timeline_data)) =>
    /\ 0 <= out.result.emotional_diversity[1]
    /\ out.result.emotional_diversity[1] <= out.result.emotional_diversity[2]


\* ---- the profile, loaded and set ----

\* lines 56-84 of ai_brain.py, on the profile file, at time t: the file it
\* leaves and what it returns
_load_personality(file, t) ==
  IF file.kind # "absent"
  THEN [file |-> file, result |-> json_loads(file)]
  ELSE [file |-> json_dumps(DefaultPersonality(t)), result |-> Ok(DefaultPersonality(t))]

\* self.personality = self._load_personality()
LoadPersonality(t) ==
  /\ DtLeq(now, t)
  /\ now' = t
  /\ LET loaded == _load_personality(personality_file, t) IN
       /\ personality_file' = loaded.file
       /\ personality' = IF loaded.result.kind = "ok" THEN loaded.result.val
                         ELSE personality
       /\ out' = [op |-> "_load_personality", at |-> t, before |-> personality_file,
                  result |-> loaded.result.kind]
  /\ UNCHANGED <<engineVars, memFiles, vaultFiles, index, nextId, call, hist,
                 conversation_history, turn, callers>>

\* a user without a profile
InitAccess ==
  /\ Init
  /\ use_pinecone = FALSE

NextAccess ==
  \/ \E t \in Datetimes : LoadPersonality(t)
  \/ \E a \in TraitArgs, t \in Datetimes : UpdatePersonalityTrait(a[1], a[2], t)

SpecAccess ==
  /\ InitAccess
  /\ [][NextAccess]_vars

(***************************************************************************)
(* C28.  After any sequence of loads and trait updates, a trait update as  *)
(* the first access included, the stored profile holds every trait of the  *)
(* default set, created_at and last_updated.                               *)
(***************************************************************************)
C28_StoredProfileHasDefaults ==
  personality_file.kind = "json" =>
    DOMAIN DefaultPersonality(now) \subseteq DOMAIN personality_file.val


\* ---- update_personality_trait, statement by statement ----

\* lines 241-245: the profile is read
SetTraitRead(c, trait, value) ==
  /\ callers[c].pc = "idle"
  /\ LET loaded == IF personality_file.kind = "absent" THEN Ok(EmptyDict)
                   ELSE json_loads(personality_file)
     IN  callers' = [callers EXCEPT ![c] =
                       IF loaded.kind = "ok"
                       THEN [pc |-> "read", trait |-> trait, value |-> value,
                             personality |-> loaded.val]
                       ELSE [pc |-> "raised", trait |-> trait, value |-> value,
                             error |-> loaded.val]]
  /\ UNCHANGED <<engineVars, memFiles, vaultFiles, index, now, nextId, call, hist, out,
                 personality_file, personality, conversation_history, turn>>

\* line 247: personality[trait] = value
SetTraitAssign(c) ==
  /\ callers[c].pc = "read"
  /\ callers' = [callers EXCEPT
                   ![c].pc = "assigned",
                   ![c].personality = SetKey(callers[c].personality,
                                             callers[c].trait, callers[c].value)]
  /\ UNCHANGED <<engineVars, memFiles, vaultFiles, index, now, nextId, call, hist, out,
                 personality_file, personality, conversation_history, turn>>

\* line 249: open(personality_path, 'w') empties the file
SetTraitOpen(c) ==
  /\ callers[c].pc = "assigned"
  /\ callers' = [callers EXCEPT ![c].pc = "opened"]
  /\ personality_file' = Truncated
  /\ UNCHANGED <<engineVars, memFiles, vaultFiles, index, now, nextId, call, hist, out,
                 personality, conversation_history, turn>>

\* line 250: json.dump, and the return
SetTraitDump(c) ==
  /\ callers[c].pc = "opened"
  /\ callers' = [callers EXCEPT ![c].pc = "returned"]
  /\ personality_file' = json_dumps(callers[c].personality)
  /\ UNCHANGED <<engineVars, memFiles, vaultFiles, index, now, nextId, call, hist, out,
                 personality, conversation_history, turn>>

\* a user with the default profile, or with none
InitCallers ==
  /\ InitProfile

NextCallers ==
  \/ \E c \in Callers, a \in TraitArgs : SetTraitRead(c, a[1], a[2])
  \/ \E c \in Callers : SetTraitAssign(c)
  \/ \E c \in Callers : SetTraitOpen(c)
  \/ \E c \in Callers : SetTraitDump(c)

SpecCallers ==
  /\ InitCallers
  /\ [][NextCallers]_vars

(***************************************************************************)
(* C29.  Two calls of update_personality_trait for one user, on different  *)
(* traits, that run at the same time both take effect: when both have      *)
(* returned, the stored profile holds both new values.                     *)
(***************************************************************************)
BothReturned ==
  /\ \A c \in Callers : callers[c].pc = "returned"
  /\ \A c, d \in Callers : c # d => callers[c].trait # callers[d].trait

C29_ConcurrentUpdatesBothKept ==
  BothReturned =>
    /\ personality_file.kind = "json"
    /\ \A c \in Callers :
         /\ callers[c].trait \in DOMAIN personality_file.val
         /\ personality_file.val[callers[c].trait] = callers[c].value


(***************************************************************************)
(* C30.  The profile that EchoSoulAI holds in memory and puts into the     *)
(* context of each turn equals the stored profile, also after a trait      *)
(* update has changed empathy_level or formality: the two never diverge.   *)
(***************************************************************************)
C30_ProfileInMemoryIsStoredProfile ==
  personality_file = json_dumps(personality)

====
